---- MODULE Spec2Model ----
(***************************************************************************)
(* A model of the db_tutorial program (src/src/main.rs): a REPL over a     *)
(* table of fixed-size rows that are packed into 4096-byte pages, cached   *)
(* by a pager and written back to one file when the table is dropped.      *)
(*                                                                         *)
(* Bytes are the integers 0..255.  A u32 is kept as two 16-bit limbs       *)
(* <<hi, lo>> (value hi * 65536 + lo) so that the whole u32 range is       *)
(* representable.  Text is kept as the sequence of its bytes.              *)
(***************************************************************************)
EXTENDS Integers, Sequences, FiniteSets, TLC

\* ------------------------------------------------------------ constants
EMAIL_SIZE == 255
USERNAME_SIZE == 32
ID_SIZE == 4
ROW_SIZE == ID_SIZE + USERNAME_SIZE + EMAIL_SIZE
PAGE_SIZE == 4096
MAX_PAGES == 100
ROWS_PER_PAGE == PAGE_SIZE \div ROW_SIZE
ID_OFFSET == 0
USERNAME_OFFSET == ID_OFFSET + ID_SIZE
EMAIL_OFFSET == USERNAME_OFFSET + USERNAME_SIZE
TABLE_MAX_ROWS == ROWS_PER_PAGE * MAX_PAGES

\* ------------------------------------------------------------ bounds
\* Rows a free-form script may insert, over all its sessions.
MaxRows == 3
\* Sessions (open .. exit) one run of the model goes through.
MaxSessions == 2
\* Rows a bulk script may insert in each session after its first.
MaxLaterRows == 1
\* Sessions a bulk script goes through.
MaxBulkSessions == 3

\* ------------------------------------------------------------ bytes
Max(a, b) == IF a > b THEN a ELSE b

\* A byte buffer (an array, a slice, a Vec<u8>, a chunk of the file) is a
\* function from the offsets 0..len-1 to bytes.  It is stored as its length
\* and its nonzero bytes: nz maps exactly the offsets that hold a nonzero
\* byte to that byte, and every other offset below len holds zero.
Byte(b, o) == IF o \in DOMAIN b.nz THEN b.nz[o] ELSE 0

\* [0u8; n]
Zeros(n) == [len |-> n, nz |-> << >>]

\* The buffer that holds the bytes of the sequence s, and back.
FromSeq(s) ==
    [len |-> Len(s),
     nz |-> [o \in {i - 1 : i \in {j \in 1..Len(s) : s[j] # 0}} |-> s[o + 1]]]
ToSeq(b) == [i \in 1..b.len |-> Byte(b, i - 1)]

\* &buf[from..to]
Slice(b, from, to) ==
    [len |-> to - from,
     nz |-> [o \in {i - from : i \in {j \in DOMAIN b.nz : j >= from /\ j < to}} |->
                b.nz[o + from]]]

\* (&mut buf[off..]).write_all(src): src replaces the bytes of buf from
\* offset off on; a buffer that can grow (the file) grows to hold them.
CopyInto(b, off, src) ==
    [len |-> Max(b.len, off + src.len),
     nz |-> [o \in {i \in DOMAIN b.nz : i < off \/ i >= off + src.len}
                   \cup {i + off : i \in DOMAIN src.nz} |->
                IF o >= off /\ o < off + src.len THEN src.nz[o - off] ELSE b.nz[o]]]

\* u32::to_be_bytes / u32::from_be_bytes on the two-limb u32
ToBeBytes(id) == << id[1] \div 256, id[1] % 256, id[2] \div 256, id[2] % 256 >>
FromBeBytes(b) == << b[1] * 256 + b[2], b[3] * 256 + b[4] >>

\* ------------------------------------------------------------ the file
\* The backing file is a byte string.  The program only ever seeks to
\* multiples of PAGE_SIZE and transfers at most PAGE_SIZE bytes, so the byte
\* string is kept in PAGE_SIZE chunks: chunk p+1 holds the bytes from
\* offset p * PAGE_SIZE on; every chunk but the last is full and the last
\* one is not empty.
FileLen(f) == IF Len(f) = 0 THEN 0 ELSE (Len(f) - 1) * PAGE_SIZE + f[Len(f)].len

Chunk(f, p) == IF p < Len(f) THEN f[p + 1] ELSE Zeros(0)

\* seek(Start(page_num * PAGE_SIZE)) then read_exact into a zeroed buffer,
\* where UnexpectedEof is swallowed: the bytes the file has are copied and
\* the rest of the buffer stays zero (the nonzero bytes of the buffer are
\* those of the chunk, which is at most PAGE_SIZE long).
ReadPage(f, page_num) == [len |-> PAGE_SIZE, nz |-> Chunk(f, page_num).nz]

\* seek(Start(page_num * PAGE_SIZE)) then write_all(bytes): the bytes replace
\* what the file held there, the file grows as needed, and a gap between the
\* old end of the file and the written range reads as zeros.
WriteAt(f, page_num, bytes) ==
    IF page_num < Len(f)
      THEN [f EXCEPT ![page_num + 1] = CopyInto(@, 0, bytes)]
      ELSE [q \in 1..page_num |->
                IF q <= Len(f) THEN [len |-> PAGE_SIZE, nz |-> f[q].nz]
                               ELSE Zeros(PAGE_SIZE)]
           \o << CopyInto(Zeros(0), 0, bytes) >>

\* ------------------------------------------------------------ the pager
NoPages == << >>

\* Pager::new that refuses a length that is not a whole number of pages
PagerNewChecked(f) ==
    IF FileLen(f) % PAGE_SIZE # 0
      THEN [ok |-> FALSE, err |-> "CorruptFile", file_length |-> FileLen(f),
            pages |-> NoPages]
      ELSE [ok |-> TRUE, err |-> "", file_length |-> FileLen(f), pages |-> NoPages]

\* Pager::new: open read/write/create, seek to the end for the length; the
\* cache starts empty.  The length is not examined.
PagerNew(f) == [ok |-> TRUE, err |-> "", file_length |-> FileLen(f), pages |-> NoPages]

\* Pager::get_page that lets one page more through
PagesFullOffByOne(page_num) == page_num > MAX_PAGES + 1

\* Pager::get_page, the test that comes first
PagesFull(page_num) == page_num > MAX_PAGES

\* Pager::get_page that never reads the file
VacantPageUnread(flen, f, page_num) == Zeros(PAGE_SIZE)

\* Pager::get_page on a page that is not cached: a zeroed buffer, filled from
\* the file when the file may hold the page.
VacantPage(flen, f, page_num) ==
    LET total_num_pages_in_file_now ==
            IF flen % PAGE_SIZE > 0 THEN (flen \div PAGE_SIZE) + 1
                                    ELSE flen \div PAGE_SIZE
    IN  IF page_num <= total_num_pages_in_file_now THEN ReadPage(f, page_num)
                                                   ELSE Zeros(PAGE_SIZE)

\* Pager::get_page that builds the page from the file on every call
GetPageReread(cache, flen, f, page_num) ==
    IF PagesFull(page_num) THEN cache
    ELSE [p \in DOMAIN cache \cup {page_num} |->
            IF p = page_num THEN VacantPage(flen, f, page_num) ELSE cache[p]]

\* Pager::get_page: the cache after the call.  When it is not refused
\* (PagesFull), the page asked for is GetPage(..)[page_num].
GetPage(cache, flen, f, page_num) ==
    IF PagesFull(page_num) \/ page_num \in DOMAIN cache THEN cache
    ELSE [p \in DOMAIN cache \cup {page_num} |->
            IF p = page_num THEN VacantPage(flen, f, page_num) ELSE cache[p]]

\* The loop of Pager::flush over the full pages page_num..num_full_pages-1:
\* a page that is not cached is skipped, a cached one is written whole.  The
\* file after the loop, chunk by chunk: a written page holds the buffer, and
\* when the writes reach past the old end of the file, the old last chunk
\* and the pages skipped past it read as zeros where nothing was written.
FlushFullPages(f, cache, page_num, num_full_pages) ==
    LET written == {p \in DOMAIN cache : p >= page_num /\ p < num_full_pages}
        top == CHOOSE p \in written : \A q \in written : q <= p
    IN  IF written = {} THEN f
        ELSE [q \in 1..Max(Len(f), top + 1) |->
                IF q - 1 \in written THEN CopyInto(Zeros(0), 0, cache[q - 1])
                ELSE IF q > Len(f) THEN Zeros(PAGE_SIZE)
                ELSE IF top >= Len(f) THEN [len |-> PAGE_SIZE, nz |-> f[q].nz]
                ELSE f[q]]

\* Pager::flush that writes the page after the full ones whole
FlushWholePages(f, cache, num_full_pages, num_additional_bytes) ==
    LET g == FlushFullPages(f, cache, 0, num_full_pages)
    IN  IF num_additional_bytes > 0 /\ num_full_pages \in DOMAIN cache
          THEN WriteAt(g, num_full_pages, cache[num_full_pages])
          ELSE g

\* Pager::flush that stops after the full pages
FlushFullPagesOnly(f, cache, num_full_pages, num_additional_bytes) ==
    FlushFullPages(f, cache, 0, num_full_pages)

\* Pager::flush: the full pages, then the first num_additional_bytes bytes of
\* the page after them when that page is cached.
Flush(f, cache, num_full_pages, num_additional_bytes) ==
    LET g == FlushFullPages(f, cache, 0, num_full_pages)
        last_possible_partial_page == num_full_pages
    IN  IF num_additional_bytes > 0 /\ last_possible_partial_page \in DOMAIN cache
          THEN WriteAt(g, last_possible_partial_page,
                       Slice(cache[last_possible_partial_page], 0, num_additional_bytes))
          ELSE g

\* ------------------------------------------------------------ row codec
\* serialize_row with the id written low byte first
SerializeRowLittleEndian(row) ==
    LET ibytes == FromSeq(<< row.id[2] % 256, row.id[2] \div 256,
                            row.id[1] % 256, row.id[1] \div 256 >>)
        ubytes == FromSeq(row.username)
        ebytes == FromSeq(row.email)
    IN  CopyInto(CopyInto(CopyInto(Zeros(ROW_SIZE), ID_OFFSET, ibytes),
                          USERNAME_OFFSET, ubytes),
                 EMAIL_OFFSET, ebytes)

\* serialize_row: into a zeroed buffer, the id big-endian, then the username
\* and the email, each written from the start of its field
\* (prepare_statement lets no longer field through).
SerializeRow(row) ==
    LET ibytes == FromSeq(ToBeBytes(row.id))
        ubytes == FromSeq(row.username)
        ebytes == FromSeq(row.email)
    IN  CopyInto(CopyInto(CopyInto(Zeros(ROW_SIZE), ID_OFFSET, ibytes),
                          USERNAME_OFFSET, ubytes),
                 EMAIL_OFFSET, ebytes)

\* deserialize_row that takes the email one byte short
DeserializeRowShortEmail(buf) ==
    [id |-> FromBeBytes(ToSeq(Slice(buf, ID_OFFSET, USERNAME_OFFSET))),
     username |-> Slice(buf, USERNAME_OFFSET, EMAIL_OFFSET),
     email |-> Slice(buf, EMAIL_OFFSET, ROW_SIZE - 1)]

\* deserialize_row: the three fields of a row slot, at their full widths.
DeserializeRow(buf) ==
    [id |-> FromBeBytes(ToSeq(Slice(buf, ID_OFFSET, USERNAME_OFFSET))),
     username |-> Slice(buf, USERNAME_OFFSET, EMAIL_OFFSET),
     email |-> Slice(buf, EMAIL_OFFSET, ROW_SIZE)]

\* u32::to_le_bytes / u32::from_le_bytes on the two-limb u32
ToLeBytes(id) == << id[2] % 256, id[2] \div 256, id[1] % 256, id[1] \div 256 >>
FromLeBytes(b) == << b[4] * 256 + b[3], b[2] * 256 + b[1] >>

\* serialize_row and deserialize_row of virtual_machine.rs: as those of
\* main.rs, but the id is little-endian.
VmSerializeRow(row) ==
    LET ibytes == FromSeq(ToLeBytes(row.id))
        ubytes == FromSeq(row.username)
        ebytes == FromSeq(row.email)
    IN  CopyInto(CopyInto(CopyInto(Zeros(ROW_SIZE), ID_OFFSET, ibytes),
                          USERNAME_OFFSET, ubytes),
                 EMAIL_OFFSET, ebytes)

VmDeserializeRow(buf) ==
    [id |-> FromLeBytes(ToSeq(Slice(buf, ID_OFFSET, USERNAME_OFFSET))),
     username |-> Slice(buf, USERNAME_OFFSET, EMAIL_OFFSET),
     email |-> Slice(buf, EMAIL_OFFSET, ROW_SIZE)]

\* str::trim_matches(char::from(0)) as main prints a field: the zero bytes
\* at both ends are dropped.  The result is the text that is left.
TrimMatches0(b) ==
    IF DOMAIN b.nz = {} THEN << >>
    ELSE LET first == CHOOSE o \in DOMAIN b.nz : \A j \in DOMAIN b.nz : o <= j
             back == {b.len - 1 - o : o \in DOMAIN b.nz}
             last == b.len - 1 - (CHOOSE o \in back : \A j \in back : o <= j)
         IN  [i \in 1..(last - first + 1) |-> Byte(b, first + i - 1)]

\* ------------------------------------------------------------ the parser
\* ASCII
SP == 32
PLUS == 43
DOT == 46
DIGITS == 48..57
INSERT == << 105, 110, 115, 101, 114, 116 >>
SELECT == << 115, 101, 108, 101, 99, 116 >>
DOT_EXIT == << 46, 101, 120, 105, 116 >>

\* str::starts_with
StartsWith(s, prefix) ==
    /\ Len(s) >= Len(prefix)
    /\ \A i \in 1..Len(prefix) : s[i] = prefix[i]

\* str::split(' '): the pieces between the spaces, empty pieces included.
\* NumParts is how many there are and Part(s, k) is the k-th (from 1).
Spaces(s) == {i \in 1..Len(s) : s[i] = SP}
NumParts(s) == Cardinality(Spaces(s)) + 1
NthSpace(s, k) ==
    CHOOSE i \in Spaces(s) : Cardinality({j \in Spaces(s) : j <= i}) = k
Part(s, k) ==
    LET from == IF k = 1 THEN 0 ELSE NthSpace(s, k - 1)
        to == IF k = NumParts(s) THEN Len(s) ELSE NthSpace(s, k) - 1
    IN  [i \in 1..(to - from) |-> s[from + i]]

\* One step of the decimal accumulation of <u32 as FromStr>: acc * 10 + d,
\* checked.  acc.v is a two-limb u32; acc.overflow says the value left u32.
MulAdd(acc, d) ==
    LET lo == acc.v[2] * 10 + d
        hi == acc.v[1] * 10 + (lo \div 65536)
    IN  IF acc.overflow \/ hi >= 65536
          THEN [overflow |-> TRUE, v |-> << 0, 0 >>]
          ELSE [overflow |-> FALSE, v |-> << hi, lo % 65536 >>]

RECURSIVE Accumulate(_, _, _)
Accumulate(digits, i, acc) ==
    IF i > Len(digits) THEN acc
    ELSE Accumulate(digits, i + 1, MulAdd(acc, digits[i] - 48))

\* str::parse::<u32>: an optional '+', then one or more decimal digits whose
\* value fits 32 bits.  Anything else (empty, a sign alone, '-', a letter,
\* too large a value) is an error.
ParseU32(src) ==
    LET digits == IF Len(src) > 0 /\ src[1] = PLUS THEN Tail(src) ELSE src
    IN  IF Len(digits) = 0 \/ \E i \in 1..Len(digits) : digits[i] \notin DIGITS
          THEN [ok |-> FALSE, id |-> << 0, 0 >>]
        ELSE LET value == Accumulate(digits, 1, [overflow |-> FALSE, v |-> << 0, 0 >>])
             IN  IF value.overflow THEN [ok |-> FALSE, id |-> << 0, 0 >>]
                 ELSE [ok |-> TRUE, id |-> value.v]

NoRow == [id |-> << 0, 0 >>, username |-> << >>, email |-> << >>]

\* prepare_statement whose length tests refuse a field that fills its column
PrepareStatementOffByOne(original_input) ==
    IF StartsWith(original_input, INSERT)
      THEN IF NumParts(original_input) >= 4
             THEN LET id == ParseU32(Part(original_input, 2))
                      username == Part(original_input, 3)
                      email == Part(original_input, 4)
                  IN  IF ~id.ok
                        THEN [ok |-> FALSE, err |-> "InvalidId", kind |-> "", row |-> NoRow]
                      ELSE IF Len(username) >= USERNAME_SIZE \/ Len(email) >= EMAIL_SIZE
                        THEN [ok |-> FALSE, err |-> "TooLong", kind |-> "", row |-> NoRow]
                      ELSE [ok |-> TRUE, err |-> "", kind |-> "Insert",
                            row |-> [id |-> id.id, username |-> username, email |-> email]]
             ELSE [ok |-> FALSE, err |-> "Sql", kind |-> "", row |-> NoRow]
    ELSE IF StartsWith(original_input, SELECT)
      THEN [ok |-> TRUE, err |-> "", kind |-> "Select", row |-> NoRow]
    ELSE [ok |-> FALSE, err |-> "Sql", kind |-> "", row |-> NoRow]

\* prepare_statement that tests the lengths before it parses the id
PrepareStatementLengthFirst(original_input) ==
    IF StartsWith(original_input, INSERT)
      THEN IF NumParts(original_input) >= 4
             THEN LET id == ParseU32(Part(original_input, 2))
                      username == Part(original_input, 3)
                      email == Part(original_input, 4)
                  IN  IF Len(username) > USERNAME_SIZE \/ Len(email) > EMAIL_SIZE
                        THEN [ok |-> FALSE, err |-> "TooLong", kind |-> "", row |-> NoRow]
                      ELSE IF ~id.ok
                        THEN [ok |-> FALSE, err |-> "InvalidId", kind |-> "", row |-> NoRow]
                      ELSE [ok |-> TRUE, err |-> "", kind |-> "Insert",
                            row |-> [id |-> id.id, username |-> username, email |-> email]]
             ELSE [ok |-> FALSE, err |-> "Sql", kind |-> "", row |-> NoRow]
    ELSE IF StartsWith(original_input, SELECT)
      THEN [ok |-> TRUE, err |-> "", kind |-> "Select", row |-> NoRow]
    ELSE [ok |-> FALSE, err |-> "Sql", kind |-> "", row |-> NoRow]

\* prepare_statement
PrepareStatement(original_input) ==
    IF StartsWith(original_input, INSERT)
      THEN IF NumParts(original_input) >= 4
             THEN LET id == ParseU32(Part(original_input, 2))
                      username == Part(original_input, 3)
                      email == Part(original_input, 4)
                  IN  IF ~id.ok
                        THEN [ok |-> FALSE, err |-> "InvalidId", kind |-> "", row |-> NoRow]
                      ELSE IF Len(username) > USERNAME_SIZE \/ Len(email) > EMAIL_SIZE
                        THEN [ok |-> FALSE, err |-> "TooLong", kind |-> "", row |-> NoRow]
                      ELSE [ok |-> TRUE, err |-> "", kind |-> "Insert",
                            row |-> [id |-> id.id, username |-> username, email |-> email]]
             ELSE [ok |-> FALSE, err |-> "Sql", kind |-> "", row |-> NoRow]
    ELSE IF StartsWith(original_input, SELECT)
      THEN [ok |-> TRUE, err |-> "", kind |-> "Select", row |-> NoRow]
    ELSE [ok |-> FALSE, err |-> "Sql", kind |-> "", row |-> NoRow]

\* ------------------------------------------------------------ the table
\* Table::new: the pager, and the row count taken from the file's length.
TableNew(f) ==
    LET pager == PagerNew(f)
    IN  [ok |-> pager.ok, err |-> pager.err,
         num_rows |-> pager.file_length \div ROW_SIZE,
         file_length |-> pager.file_length,
         pages |-> pager.pages]

\* execute_statement's insert that writes the page it changed to the file
ExecuteInsertWriteThrough(row, nrows, cache, flen, f) ==
    IF nrows = TABLE_MAX_ROWS
      THEN [res |-> "TableFull", rows |-> << >>, num_rows |-> nrows, pages |-> cache,
            file |-> f]
    ELSE LET bytes == SerializeRow(row)
             page_num == nrows \div ROWS_PER_PAGE
             got == GetPage(cache, flen, f, page_num)
             byte_offset == (nrows % ROWS_PER_PAGE) * ROW_SIZE
         IN  IF PagesFull(page_num)
               THEN [res |-> "Table(Pager(PagesFull))", rows |-> << >>,
                     num_rows |-> nrows, pages |-> got, file |-> f]
               ELSE LET page == CopyInto(got[page_num], byte_offset, bytes)
                    IN  [res |-> "Success", rows |-> << >>,
                         num_rows |-> nrows + 1,
                         pages |-> [got EXCEPT ![page_num] = page],
                         file |-> WriteAt(f, page_num, page)]

\* execute_statement's insert with the capacity test off by one
ExecuteInsertOffByOne(row, nrows, cache, flen, f) ==
    IF nrows > TABLE_MAX_ROWS
      THEN [res |-> "TableFull", rows |-> << >>, num_rows |-> nrows, pages |-> cache,
            file |-> f]
    ELSE LET bytes == SerializeRow(row)
             page_num == nrows \div ROWS_PER_PAGE
             got == GetPage(cache, flen, f, page_num)
             byte_offset == (nrows % ROWS_PER_PAGE) * ROW_SIZE
         IN  IF PagesFull(page_num)
               THEN [res |-> "Table(Pager(PagesFull))", rows |-> << >>,
                     num_rows |-> nrows, pages |-> got, file |-> f]
               ELSE [res |-> "Success", rows |-> << >>,
                     num_rows |-> nrows + 1,
                     pages |-> [got EXCEPT ![page_num] = CopyInto(@, byte_offset, bytes)],
                     file |-> f]

\* Table::execute_statement, Statement::Insert.  The result, the table's
\* fields after the call, and the file after the call (get_page only reads
\* it).
ExecuteInsert(row, nrows, cache, flen, f) ==
    IF nrows = TABLE_MAX_ROWS
      THEN [res |-> "TableFull", rows |-> << >>, num_rows |-> nrows, pages |-> cache,
            file |-> f]
    ELSE LET bytes == SerializeRow(row)
             page_num == nrows \div ROWS_PER_PAGE
             got == GetPage(cache, flen, f, page_num)
             row_offset == nrows % ROWS_PER_PAGE
             byte_offset == row_offset * ROW_SIZE
         IN  IF PagesFull(page_num)
               THEN [res |-> "Table(Pager(PagesFull))", rows |-> << >>,
                     num_rows |-> nrows, pages |-> got, file |-> f]
               ELSE [res |-> "Success", rows |-> << >>,
                     num_rows |-> nrows + 1,
                     pages |-> [got EXCEPT ![page_num] = CopyInto(@, byte_offset, bytes)],
                     file |-> f]

\* A select that hands the rows over and leaves the table without them
ExecuteSelectTaking(nrows, cache, flen, f) ==
    LET refused == {i \in 0..(nrows - 1) : PagesFull(i \div ROWS_PER_PAGE)}
        n == IF refused = {} THEN nrows
             ELSE CHOOSE i \in refused : \A j \in refused : i <= j
        touched == {i \div ROWS_PER_PAGE : i \in 0..(n - 1)}
        loaded == [p \in DOMAIN cache \cup touched |->
                      GetPage(cache, flen, f, p)[p]]
        row_buffer(i) ==
            LET byte_offset == (i % ROWS_PER_PAGE) * ROW_SIZE
            IN  Slice(loaded[i \div ROWS_PER_PAGE], byte_offset, byte_offset + ROW_SIZE)
    IN  IF n < nrows
          THEN [res |-> "Table(Pager(PagesFull))", rows |-> << >>,
                num_rows |-> nrows, pages |-> loaded, file |-> f]
          ELSE [res |-> "Rows",
                rows |-> [i \in 1..n |-> DeserializeRow(row_buffer(i - 1))],
                num_rows |-> 0, pages |-> loaded, file |-> f]

\* Table::execute_statement, Statement::Select: rows 0..num_rows-1 in order,
\* each through get_page.  The pages of the rows go into the cache as they
\* are met; the first row whose page get_page refuses ends the loop with
\* that error and no rows.
ExecuteSelect(nrows, cache, flen, f) ==
    LET refused == {i \in 0..(nrows - 1) : PagesFull(i \div ROWS_PER_PAGE)}
        n == IF refused = {} THEN nrows
             ELSE CHOOSE i \in refused : \A j \in refused : i <= j
        touched == {i \div ROWS_PER_PAGE : i \in 0..(n - 1)}
        loaded == [p \in DOMAIN cache \cup touched |->
                      GetPage(cache, flen, f, p)[p]]
        row_buffer(i) ==
            LET byte_offset == (i % ROWS_PER_PAGE) * ROW_SIZE
            IN  Slice(loaded[i \div ROWS_PER_PAGE], byte_offset, byte_offset + ROW_SIZE)
    IN  IF n < nrows
          THEN [res |-> "Table(Pager(PagesFull))", rows |-> << >>,
                num_rows |-> nrows, pages |-> loaded, file |-> f]
          ELSE [res |-> "Rows",
                rows |-> [i \in 1..n |-> DeserializeRow(row_buffer(i - 1))],
                num_rows |-> nrows, pages |-> loaded, file |-> f]

\* What main prints for a returned row: the id and the two fields with their
\* zero bytes trimmed.
PrintedRow(r) ==
    [id |-> r.id, username |-> TrimMatches0(r.username), email |-> TrimMatches0(r.email)]

\* main's loop turn that announces the statement before it looks at what
\* prepare_statement returned
ReplStatementAnnounceFirst(line, nrows, cache, flen, f) ==
    LET s == PrepareStatement(line)
        executing == IF StartsWith(line, INSERT) THEN "insert"
                     ELSE IF StartsWith(line, SELECT) THEN "select" ELSE ""
    IN  IF ~s.ok
          THEN [executing |-> executing, message |-> "Statement(" \o s.err \o ")",
                rows |-> << >>, num_rows |-> nrows, pages |-> cache, file |-> f]
        ELSE LET r == IF s.kind = "Insert"
                        THEN ExecuteInsert(s.row, nrows, cache, flen, f)
                        ELSE ExecuteSelect(nrows, cache, flen, f)
             IN  [executing |-> executing,
                  message |-> IF r.res \in {"Success", "Rows"} THEN r.res
                              ELSE "Execute(" \o r.res \o ")",
                  rows |-> [i \in 1..Len(r.rows) |-> PrintedRow(r.rows[i])],
                  num_rows |-> r.num_rows, pages |-> r.pages, file |-> r.file]

\* One turn of main's loop on a statement line: prepare_statement, then, only
\* for a statement it accepted, the "executing ..." line and
\* execute_statement; the rows or the message are printed.
ReplStatement(line, nrows, cache, flen, f) ==
    LET s == PrepareStatement(line)
    IN  IF ~s.ok
          THEN [executing |-> "", message |-> "Statement(" \o s.err \o ")",
                rows |-> << >>, num_rows |-> nrows, pages |-> cache, file |-> f]
        ELSE LET r == IF s.kind = "Insert"
                        THEN ExecuteInsert(s.row, nrows, cache, flen, f)
                        ELSE ExecuteSelect(nrows, cache, flen, f)
             IN  [executing |-> IF s.kind = "Insert" THEN "insert" ELSE "select",
                  message |-> IF r.res \in {"Success", "Rows"} THEN r.res
                              ELSE "Execute(" \o r.res \o ")",
                  rows |-> [i \in 1..Len(r.rows) |-> PrintedRow(r.rows[i])],
                  num_rows |-> r.num_rows, pages |-> r.pages, file |-> r.file]

\* impl Drop for Table: the flush of the pages that hold rows.
DropTable(f, nrows, cache) ==
    LET total_num_rows == nrows
        num_full_pages == total_num_rows \div ROWS_PER_PAGE
        num_additional_rows == total_num_rows % ROWS_PER_PAGE
        num_additional_bytes == num_additional_rows * ROW_SIZE
    IN  Flush(f, cache, num_full_pages, num_additional_bytes)

\* ------------------------------------------------------------ input lines
\* The decimal text of n (format!("{}", n))
RECURSIVE Decimal(_)
Decimal(n) == IF n < 10 THEN << 48 + n >> ELSE Decimal(n \div 10) \o << 48 + (n % 10) >>

Repeat(b, n) == [i \in 1..n |-> b]

USER == << 117, 115, 101, 114 >>
PERSON == << 112, 101, 114, 115, 111, 110 >>
AT_EXAMPLE_COM == << 64, 101, 120, 97, 109, 112, 108, 101, 46, 99, 111, 109 >>

InsertLine(id, username, email) ==
    INSERT \o << SP >> \o id \o << SP >> \o username \o << SP >> \o email

\* "insert {i} user{i} person{i}@example.com", the line of the test scripts
ScriptLine(i) ==
    InsertLine(Decimal(i), USER \o Decimal(i), PERSON \o Decimal(i) \o AT_EXAMPLE_COM)

\* "insert {i} u e", the line of a bulk script
BulkLine(i) == InsertLine(Decimal(i), << 117 >>, << 101 >>)

\* 4294901762 = 0xFFFF0002, a username with zero bytes around a letter
BigIdLine ==
    InsertLine(<< 52, 50, 57, 52, 57, 48, 49, 55, 54, 50 >>, << 0, 97, 0 >>, << 98 >>)

\* The lines a free-form script is made of: the lines of the tests (a plain
\* row, fields of the greatest length, fields one byte too long, a negative
\* id), a large id, a statement that lacks a field, an unknown verb.
GoodLines ==
    { ScriptLine(1),
      InsertLine(<< 49 >>, Repeat(97, USERNAME_SIZE), Repeat(97, EMAIL_SIZE)),
      BigIdLine }
BadLines ==
    { InsertLine(<< 49 >>, Repeat(97, USERNAME_SIZE + 1), Repeat(97, EMAIL_SIZE + 1)),
      InsertLine(<< 45, 49 >>, << 97 >>, << 97 >>),
      INSERT \o << SP, 49, SP, 97 >>,
      << 102, 111, 111 >> }

\* ------------------------------------------------------------ the state
VARIABLES
    disk,          \* the backing file, which outlives the sessions
    phase,         \* "closed": no process runs; "open": main is in its loop
    session,       \* how many times the program has been started
    num_rows,      \* Table.num_rows
    file_length,   \* Pager.file_length
    pages,         \* Pager.pages
    input_buffer,  \* the line main read last
    out,           \* what main printed for that line
    inserted,      \* history: the rows whose insert returned Success, in order
    opened_with,   \* history: how many rows had been inserted when the session began
    script,        \* "free": any line at any time; "bulk": the rows 1, 2, 3, ..
    the_cursor     \* the Cursor that Table::start or Table::end returned last

vars == << disk, phase, session, num_rows, file_length, pages, input_buffer,
           out, inserted, opened_with, script, the_cursor >>

NoOut == [executing |-> "", message |-> "", rows |-> << >>]

\* No cursor has been made.
NoCursor == [none |-> TRUE]

Init ==
    /\ disk = << >>
    /\ phase = "closed"
    /\ session = 0
    /\ num_rows = 0
    /\ file_length = 0
    /\ pages = NoPages
    /\ input_buffer = << >>
    /\ out = NoOut
    /\ inserted = << >>
    /\ opened_with = 0
    /\ script = "free"
    /\ the_cursor = NoCursor

\* A bulk script fills the table row by row in its first session, as the
\* script of the table-full test does, and selects or exits there only after
\* some of the pages; its later sessions are free, but short.
InitBulk ==
    /\ disk = << >>
    /\ phase = "closed"
    /\ session = 0
    /\ num_rows = 0
    /\ file_length = 0
    /\ pages = NoPages
    /\ input_buffer = << >>
    /\ out = NoOut
    /\ inserted = << >>
    /\ opened_with = 0
    /\ script = "bulk"
    /\ the_cursor = NoCursor

\* The program is started: main builds the table and reaches its prompt.
Open ==
    /\ phase = "closed"
    /\ session < (IF script = "bulk" THEN MaxBulkSessions ELSE MaxSessions)
    /\ LET t == TableNew(disk)
       IN  /\ phase' = IF t.ok THEN "open" ELSE "failed"
           /\ num_rows' = t.num_rows
           /\ file_length' = t.file_length
           /\ pages' = t.pages
           /\ out' = [NoOut EXCEPT !.message = t.err]
    /\ session' = session + 1
    /\ input_buffer' = << >>
    /\ opened_with' = Len(inserted)
    /\ UNCHANGED << disk, inserted, script, the_cursor >>

\* The pages after whose last row a bulk script may select or exit in its
\* first session: none, the first, those around the 14th (from which on the
\* file is as long as one row more than it holds), the last.
PausePages == {0, 1, 13, 14, 15, MAX_PAGES}

\* A bulk script may select or exit now.
CanPause == session > 1 \/ Len(inserted) \in {ROWS_PER_PAGE * k : k \in PausePages}

\* The lines the script may feed next.
NextLines ==
    IF script = "free"
      THEN (IF Len(inserted) < MaxRows THEN GoodLines ELSE {}) \cup BadLines \cup {SELECT}
      ELSE (IF session = 1 \/ Len(inserted) - opened_with < MaxLaterRows
              THEN {BulkLine(Len(inserted) + 1)} ELSE {})
           \cup (IF CanPause THEN {SELECT} ELSE {})

\* One turn of main's loop: a statement line is read and processed.
Repl ==
    /\ phase = "open"
    /\ \E line \in NextLines :
         LET r == ReplStatement(line, num_rows, pages, file_length, disk)
         IN  /\ input_buffer' = line
             /\ out' = [executing |-> r.executing, message |-> r.message, rows |-> r.rows]
             /\ num_rows' = r.num_rows
             /\ pages' = r.pages
             /\ disk' = r.file
             /\ inserted' = IF r.message = "Success"
                              THEN Append(inserted, PrepareStatement(line).row)
                              ELSE inserted
    /\ UNCHANGED << phase, session, file_length, opened_with, script, the_cursor >>

\* ".exit": main leaves its loop and returns, which drops the table.
Exit ==
    /\ phase = "open"
    /\ script = "bulk" => CanPause
    /\ disk' = DropTable(disk, num_rows, pages)
    /\ phase' = "closed"
    /\ num_rows' = 0
    /\ file_length' = 0
    /\ pages' = NoPages
    /\ input_buffer' = DOT_EXIT
    /\ out' = NoOut
    /\ UNCHANGED << session, inserted, opened_with, script, the_cursor >>

Next == Open \/ Repl \/ Exit

Spec == Init /\ [][Next]_vars

SpecBulk == InitBulk /\ [][Next]_vars

\* ------------------------------------------------------------ the parser alone
\* Id tokens that are a u32, with their values, and id tokens that are not:
\* "1", "0", "+5", "007", "4294901762", "4294967295";
\* "", "+", "-1", "abc", "1.5", "4294967296", "99999999999".
GoodIds ==
    { [text |-> << 49 >>, value |-> << 0, 1 >>],
      [text |-> << 48 >>, value |-> << 0, 0 >>],
      [text |-> << PLUS, 53 >>, value |-> << 0, 5 >>],
      [text |-> << 48, 48, 55 >>, value |-> << 0, 7 >>],
      [text |-> << 52, 50, 57, 52, 57, 48, 49, 55, 54, 50 >>, value |-> << 65535, 2 >>],
      [text |-> << 52, 50, 57, 52, 57, 54, 55, 50, 57, 53 >>, value |-> << 65535, 65535 >>] }
BadIds ==
    { << >>,
      << PLUS >>,
      << 45, 49 >>,
      << 97, 98, 99 >>,
      << 49, DOT, 53 >>,
      << 52, 50, 57, 52, 57, 54, 55, 50, 57, 54 >>,
      Repeat(57, 11) }
UsernameLens == {0, 1, USERNAME_SIZE, USERNAME_SIZE + 1}
EmailLens == {1, EMAIL_SIZE, EMAIL_SIZE + 1}

\* "insert <id> aa..a aa..a" with a username of u bytes and an email of e
Sized(id, u, e) == InsertLine(id, Repeat(97, u), Repeat(97, e))

\* The statements handed to prepare_statement: the inserts above, and a
\* select, an unknown verb and an insert that lacks its email.
ParseInputs ==
    {Sized(id, u, e) : id \in {g.text : g \in GoodIds} \cup BadIds,
                       u \in UsernameLens, e \in EmailLens}
    \cup {SELECT, << 102, 111, 111 >>, INSERT \o << SP, 49, SP, 97 >>}

InitParse ==
    /\ disk = << >>
    /\ phase = "parse"
    /\ session = 0
    /\ num_rows = 0
    /\ file_length = 0
    /\ pages = NoPages
    /\ input_buffer \in ParseInputs
    /\ out = NoOut
    /\ inserted = << >>
    /\ opened_with = 0
    /\ script = "parse"
    /\ the_cursor = NoCursor

\* prepare_statement is applied to the statement: out.message is the kind of
\* the statement or the error, out.rows holds the row of an insert.
Prepare ==
    /\ phase = "parse"
    /\ LET s == PrepareStatement(input_buffer)
       IN  out' = [executing |-> "",
                   message |-> IF s.ok THEN s.kind ELSE s.err,
                   rows |-> IF s.ok /\ s.kind = "Insert" THEN << s.row >> ELSE << >>]
    /\ phase' = "parsed"
    /\ UNCHANGED << disk, session, num_rows, file_length, pages, input_buffer,
                    inserted, opened_with, script, the_cursor >>

NextParse == Prepare

SpecParse == InitParse /\ [][NextParse]_vars

\* ------------------------------------------------------------ the codec alone
\* Rows handed to serialize_row: ids with distinct bytes, and fields that are
\* empty, short, of full width, with zero bytes inside, in front or at the
\* end.
CodecIds ==
    { << 0, 0 >>, << 0, 1 >>, << 0, 258 >>, << 1, 0 >>, << 258, 772 >>,
      << 65535, 2 >>, << 65535, 65535 >> }
CodecUsernames ==
    { << >>, << 97 >>, << 0, 97 >>, << 97, 0, 98 >>, << 97, 0 >>,
      Repeat(97, USERNAME_SIZE) }
CodecEmails ==
    { << >>, << 98 >>, << 0, 0, 98 >>, << 98, 0 >>, Repeat(97, EMAIL_SIZE) }

InitCodec ==
    /\ disk = << >>
    /\ phase = "codec"
    /\ session = 0
    /\ num_rows = 0
    /\ file_length = 0
    /\ pages = NoPages
    /\ input_buffer = << >>
    /\ out = NoOut
    /\ inserted \in {<< [id |-> i, username |-> u, email |-> e] >> :
                         i \in CodecIds, u \in CodecUsernames, e \in CodecEmails}
    /\ opened_with = 0
    /\ script = "codec"
    /\ the_cursor = NoCursor

\* The row goes through serialize_row and deserialize_row, those of main.rs
\* and those of virtual_machine.rs: out.rows holds the two results.
Codec ==
    /\ phase = "codec"
    /\ out' = [NoOut EXCEPT !.rows =
                   << DeserializeRow(SerializeRow(inserted[1])),
                      VmDeserializeRow(VmSerializeRow(inserted[1])) >>]
    /\ phase' = "coded"
    /\ UNCHANGED << disk, session, num_rows, file_length, pages, input_buffer,
                    inserted, opened_with, script, the_cursor >>

NextCodec == Codec

SpecCodec == InitCodec /\ [][NextCodec]_vars

\* ------------------------------------------------------------ the leaf layout
\* constants.rs: the common node header, the leaf header, the leaf body
NODE_TYPE_SIZE == 1
IS_ROOT_SIZE == 1
PARENT_POINTER_SIZE == 4
COMMON_NODE_HEADER_SIZE == NODE_TYPE_SIZE + IS_ROOT_SIZE + PARENT_POINTER_SIZE
LEAF_NODE_NUM_CELLS_SIZE == 4
LEAF_NODE_NUM_CELLS_OFFSET == COMMON_NODE_HEADER_SIZE
LEAF_NODE_HEADER_SIZE == COMMON_NODE_HEADER_SIZE + LEAF_NODE_NUM_CELLS_SIZE
LEAF_NODE_KEY_SIZE == 4
LEAF_NODE_VALUE_SIZE == ROW_SIZE
LEAF_NODE_CELL_SIZE == LEAF_NODE_KEY_SIZE + LEAF_NODE_VALUE_SIZE
LEAF_NODE_SPACE_FOR_CELLS == PAGE_SIZE - LEAF_NODE_HEADER_SIZE
LEAF_NODE_MAX_CELLS == LEAF_NODE_SPACE_FOR_CELLS \div LEAF_NODE_CELL_SIZE

\* LeafNode::reset_node_num_cells: the four bytes of num_cells are zeroed.
ResetNodeNumCells(buffer) ==
    CopyInto(buffer, LEAF_NODE_NUM_CELLS_OFFSET, Zeros(LEAF_NODE_NUM_CELLS_SIZE))

\* LeafNode::leaf_node_num_cells: the little-endian u32 at the num_cells
\* offset, as a number (the leaves of this model hold counts below 2^16).
LeafNodeNumCells(buffer) ==
    LET num_cells == FromLeBytes(ToSeq(Slice(buffer, LEAF_NODE_NUM_CELLS_OFFSET,
                                             LEAF_NODE_NUM_CELLS_OFFSET + 4)))
    IN  num_cells[1] * 65536 + num_cells[2]

\* LeafNode::leaf_node_cell: where the slice &mut buffer[..] starts; the
\* slice runs to the end of the page.
LeafNodeCell(cell_num) == LEAF_NODE_HEADER_SIZE + cell_num * LEAF_NODE_CELL_SIZE

\* Pager.num_pages as Pager::new records it.
PagerNumPages(f) == FileLen(f) \div PAGE_SIZE

\* Pager::flush(): every cached page is written whole.  The pages todo are
\* taken lowest first; they do not overlap, so the file that results is the
\* same in any order.
RECURSIVE FlushCached(_, _, _)
FlushCached(f, cache, todo) ==
    IF todo = {} THEN f
    ELSE LET page_num == CHOOSE p \in todo : \A q \in todo : p <= q
         IN  FlushCached(WriteAt(f, page_num, cache[page_num]), cache, todo \ {page_num})

PagerFlush(f, cache) == FlushCached(f, cache, DOMAIN cache)

\* The row count a table starts with: that of the stored rows, the num_cells
\* of the root leaf in the file.
StoredRows(f) == IF Len(f) = 0 THEN 0 ELSE LeafNodeNumCells(ReadPage(f, 0))

\* Table.root_page_num, which Table::new sets
root_page_num == 0

\* Table::new of table.rs that resets the root leaf of every file
LeafTableNewAlwaysReset(f) ==
    LET pager == PagerNew(f)
    IN  [ok |-> pager.ok, err |-> pager.err,
         root_page_num |-> root_page_num,
         num_rows |-> StoredRows(f),
         file_length |-> pager.file_length,
         pages |-> LET got == GetPage(pager.pages, pager.file_length, f, 0)
                   IN  [got EXCEPT ![0] = ResetNodeNumCells(@)]]

\* Table::new of table.rs: the pager; on a file without pages the root page
\* is fetched and its num_cells reset.
LeafTableNew(f) ==
    LET pager == PagerNew(f)
    IN  [ok |-> pager.ok, err |-> pager.err,
         root_page_num |-> root_page_num,
         num_rows |-> StoredRows(f),
         file_length |-> pager.file_length,
         pages |-> IF PagerNumPages(f) = 0
                     THEN LET got == GetPage(pager.pages, pager.file_length, f, 0)
                          IN  [got EXCEPT ![0] = ResetNodeNumCells(@)]
                     ELSE pager.pages]

\* Table::start and Table::end on the root page
\* Table::start that never finds the table empty
TableStartNotAtEnd(page) ==
    [page_num |-> root_page_num, cell_num |-> 0, end_of_table |-> FALSE]

TableStart(page) ==
    [page_num |-> root_page_num, cell_num |-> 0,
     end_of_table |-> LeafNodeNumCells(page) = 0]
TableEnd(page) ==
    [page_num |-> root_page_num, cell_num |-> LeafNodeNumCells(page),
     end_of_table |-> TRUE]

\* Cursor::value: where the slice it returns starts; the slice runs to the
\* end of the page, and taking it panics when it would start beyond the end.
CursorValue(cell_num) == LeafNodeCell(cell_num) + LEAF_NODE_KEY_SIZE

\* Cursor::insert.  A leaf of more than LEAF_NODE_MAX_CELLS cells is refused.
\* Below the end of the cells, each cell from the last one down is converted
\* to an array of LEAF_NODE_CELL_SIZE bytes, which fails (BadPageSize) unless
\* the slice, which runs to the end of the page, has just that length; were
\* every conversion to succeed there would be one cell only, swapped with
\* itself.  Nothing else is done: neither key nor value is written and
\* num_cells is not changed.
CursorInsert(page, cell_num, key, value) ==
    LET num_cells == LeafNodeNumCells(page)
        converts(i) == PAGE_SIZE - LeafNodeCell(i) = LEAF_NODE_CELL_SIZE
    IN  IF num_cells > LEAF_NODE_MAX_CELLS
          THEN [res |-> "SplitNotImplemented", page |-> page]
        ELSE IF cell_num < num_cells
                /\ \E i \in cell_num..(num_cells - 1) : ~converts(i) \/ ~converts(cell_num)
          THEN [res |-> "BadPageSize", page |-> page]
        ELSE [res |-> "Ok", page |-> page]

\* VirtualMachine::execute_statement, Statement::Insert: the row is written
\* into what Cursor::value returns for the cursor of Table::end.  write_all
\* into a slice shorter than the row fills the slice and fails (WriteZero).
LeafExecuteInsert(row, nrows, cache, flen, f) ==
    IF nrows = TABLE_MAX_ROWS
      THEN [res |-> "TableFull", rows |-> << >>, num_rows |-> nrows, pages |-> cache]
    ELSE LET got == GetPage(cache, flen, f, 0)
             cursor == TableEnd(got[0])
             row_buffer == CursorValue(cursor.cell_num)
             bytes == VmSerializeRow(row)
         IN  IF row_buffer > PAGE_SIZE
               THEN [res |-> "panic", rows |-> << >>, num_rows |-> nrows, pages |-> got]
             ELSE IF PAGE_SIZE - row_buffer < ROW_SIZE
               THEN [res |-> "Write(WriteZero)", rows |-> << >>, num_rows |-> nrows,
                     pages |-> [got EXCEPT ![0] =
                                   CopyInto(@, row_buffer,
                                            Slice(bytes, 0, PAGE_SIZE - row_buffer))]]
             ELSE [res |-> "Success", rows |-> << >>, num_rows |-> nrows + 1,
                   pages |-> [got EXCEPT ![0] = CopyInto(@, row_buffer, bytes)]]

\* The loop of Statement::Select from the cursor at cell_num on: the slice
\* of Cursor::value is converted to an array of ROW_SIZE bytes, which fails
\* (RowRead) unless it has just that length.
RECURSIVE SelectFrom(_, _, _)
SelectFrom(page, cell_num, rows) ==
    IF cell_num >= LeafNodeNumCells(page) THEN [res |-> "Rows", rows |-> rows]
    ELSE IF CursorValue(cell_num) > PAGE_SIZE THEN [res |-> "panic", rows |-> << >>]
    ELSE IF PAGE_SIZE - CursorValue(cell_num) # ROW_SIZE
      THEN [res |-> "RowRead", rows |-> << >>]
    ELSE SelectFrom(page, cell_num + 1,
                    Append(rows, VmDeserializeRow(
                                     Slice(page, CursorValue(cell_num), PAGE_SIZE))))

\* VirtualMachine::execute_statement, Statement::Select
LeafExecuteSelect(nrows, cache, flen, f) ==
    LET got == GetPage(cache, flen, f, 0)
        cursor == TableStart(got[0])
        r == SelectFrom(got[0], cursor.cell_num, << >>)
    IN  [res |-> r.res, rows |-> r.rows, num_rows |-> nrows, pages |-> got]

\* ------------------------------------------------------------ the leaf alone
\* The rows and keys of the calls.
LeafRows ==
    { [id |-> << 0, 1 >>, username |-> << 117 >>, email |-> << 101 >>],
      [id |-> << 1, 2 >>, username |-> USER, email |-> AT_EXAMPLE_COM] }
LeafKeys == { << 0, 1 >>, << 1, 2 >> }

\* A root leaf of k cells as the layout has it: cell i holds the key i + 1
\* and the row of that id; a count above LEAF_NODE_MAX_CELLS comes with the
\* cells the page has room for.
LeafPage(k) ==
    LET cell(i) == CopyInto(CopyInto(Zeros(LEAF_NODE_CELL_SIZE), 0,
                                     FromSeq(ToLeBytes(<< 0, i + 1 >>))),
                            LEAF_NODE_KEY_SIZE,
                            VmSerializeRow([id |-> << 0, i + 1 >>,
                                            username |-> << 117 >>,
                                            email |-> << 101 >>]))
        header == CopyInto(Zeros(LEAF_NODE_HEADER_SIZE), LEAF_NODE_NUM_CELLS_OFFSET,
                           FromSeq(ToLeBytes(<< 0, k >>)))
        stored == IF k <= LEAF_NODE_MAX_CELLS THEN k ELSE LEAF_NODE_MAX_CELLS
    IN  [len |-> PAGE_SIZE,
         nz |-> [o \in DOMAIN header.nz
                       \cup UNION {{LeafNodeCell(i) + j : j \in DOMAIN cell(i).nz} :
                                       i \in 0..(stored - 1)} |->
                    IF o < LEAF_NODE_HEADER_SIZE THEN header.nz[o]
                    ELSE cell((o - LEAF_NODE_HEADER_SIZE) \div LEAF_NODE_CELL_SIZE).nz[
                             (o - LEAF_NODE_HEADER_SIZE) % LEAF_NODE_CELL_SIZE]]]

\* The files a session may find: none yet, or one root leaf of 0 cells, of
\* some, of LEAF_NODE_MAX_CELLS, of one more.
LeafFiles ==
    { << >> } \cup { << LeafPage(k) >> : k \in {0, 1, 2, LEAF_NODE_MAX_CELLS - 1,
                                               LEAF_NODE_MAX_CELLS,
                                               LEAF_NODE_MAX_CELLS + 1} }

NoCall == [cell_num |-> 0, key |-> << 0, 0 >>, value |-> Zeros(0)]

InitLeaf ==
    /\ disk \in LeafFiles
    /\ phase = "closed"
    /\ session = 0
    /\ num_rows = 0
    /\ file_length = 0
    /\ pages = NoPages
    /\ input_buffer = NoCall
    /\ out = NoOut
    /\ inserted = << >>
    /\ opened_with = 0
    /\ script = "leaf"
    /\ the_cursor = NoCursor

\* The table is built on the file.
LeafOpen ==
    /\ phase = "closed"
    /\ session < MaxSessions
    /\ LET t == LeafTableNew(disk)
       IN  /\ phase' = IF t.ok THEN "open" ELSE "failed"
           /\ num_rows' = t.num_rows
           /\ file_length' = t.file_length
           /\ pages' = t.pages
           /\ out' = [NoOut EXCEPT !.message = t.err]
    /\ session' = session + 1
    /\ input_buffer' = NoCall
    /\ opened_with' = Len(inserted)
    /\ UNCHANGED << disk, inserted, script, the_cursor >>

\* The engine executes an insert.  A panic unwinds and drops the table.
LeafInsert ==
    /\ phase = "open"
    /\ Len(inserted) < MaxRows
    /\ \E row \in LeafRows :
         LET r == LeafExecuteInsert(row, num_rows, pages, file_length, disk)
         IN  /\ out' = [executing |-> "insert", message |-> r.res, rows |-> << >>]
             /\ inserted' = IF r.res = "Success" THEN Append(inserted, row) ELSE inserted
             /\ IF r.res = "panic"
                  THEN /\ phase' = "closed"
                       /\ disk' = PagerFlush(disk, r.pages)
                       /\ num_rows' = 0
                       /\ file_length' = 0
                       /\ pages' = NoPages
                  ELSE /\ num_rows' = r.num_rows
                       /\ pages' = r.pages
                       /\ UNCHANGED << phase, disk, file_length >>
    /\ input_buffer' = NoCall
    /\ UNCHANGED << session, opened_with, script, the_cursor >>

\* The engine executes a select.
LeafSelect ==
    /\ phase = "open"
    /\ LET r == LeafExecuteSelect(num_rows, pages, file_length, disk)
       IN  /\ out' = [executing |-> "select", message |-> r.res, rows |-> r.rows]
           /\ pages' = r.pages
    /\ input_buffer' = NoCall
    /\ UNCHANGED << disk, phase, session, num_rows, file_length, inserted,
                    opened_with, script, the_cursor >>

\* Cursor::insert is called on a cursor of the root leaf, one that
\* Table::start, Table::end and Cursor::advance give: input_buffer holds the
\* call.
LeafCursorInsert ==
    /\ phase = "open"
    /\ LET got == GetPage(pages, file_length, disk, 0)
       IN  \E cell_num \in 0..LeafNodeNumCells(got[0]), key \in LeafKeys, row \in LeafRows :
              LET value == VmSerializeRow(row)
                  r == CursorInsert(got[0], cell_num, key, value)
              IN  /\ input_buffer' = [cell_num |-> cell_num, key |-> key, value |-> value]
                  /\ out' = [executing |-> "cursor insert", message |-> r.res,
                             rows |-> << >>]
                  /\ pages' = [got EXCEPT ![0] = r.page]
    /\ UNCHANGED << disk, phase, session, num_rows, file_length, inserted,
                    opened_with, script, the_cursor >>

\* The table is dropped: Pager::flush().
LeafExit ==
    /\ phase = "open"
    /\ disk' = PagerFlush(disk, pages)
    /\ phase' = "closed"
    /\ num_rows' = 0
    /\ file_length' = 0
    /\ pages' = NoPages
    /\ input_buffer' = NoCall
    /\ out' = NoOut
    /\ UNCHANGED << session, inserted, opened_with, script, the_cursor >>

NextLeaf == LeafOpen \/ LeafInsert \/ LeafSelect \/ LeafCursorInsert \/ LeafExit

SpecLeaf == InitLeaf /\ [][NextLeaf]_vars

\* ------------------------------------------------------------ the cursors alone
\* Cursor::advance of table.rs: one cell on; end_of_table is set when the new
\* position has reached num_cells, and is never cleared.
CursorAdvance(page, c) ==
    LET num_cells == LeafNodeNumCells(page)
    IN  [c EXCEPT !.cell_num = c.cell_num + 1,
                  !.end_of_table = IF c.cell_num + 1 >= num_cells THEN TRUE ELSE @]

\* Cursor::value of table.rs: the length of the slice it returns, which runs
\* from the value of the cell to the end of the page.
CursorValueLen(cell_num) == PAGE_SIZE - CursorValue(cell_num)

\* Table::start, Table::end and Cursor::advance of main.rs, on rows
FlatTableStart(nrows) == [row_num |-> 0, end_of_table |-> nrows = 0]
FlatTableEnd(nrows) == [row_num |-> nrows, end_of_table |-> TRUE]
FlatCursorAdvance(c, nrows) ==
    [c EXCEPT !.row_num = c.row_num + 1,
              !.end_of_table = IF c.row_num + 1 >= nrows THEN TRUE ELSE @]

\* The file main.rs leaves when n rows 1, 2, .., n were inserted: the full
\* pages whole, then the rows of the last page.
FlatFile(n) ==
    LET row(i) == SerializeRow([id |-> << 0, i + 1 >>, username |-> << 117 >>,
                                email |-> << 101 >>])
        chunks == (n + ROWS_PER_PAGE - 1) \div ROWS_PER_PAGE
        rows_of(q) == {i \in 0..(n - 1) : i \div ROWS_PER_PAGE = q - 1}
    IN  [q \in 1..chunks |->
            [len |-> IF q * ROWS_PER_PAGE <= n THEN PAGE_SIZE
                     ELSE (n % ROWS_PER_PAGE) * ROW_SIZE,
             nz |-> [o \in UNION {{(i % ROWS_PER_PAGE) * ROW_SIZE + j :
                                       j \in DOMAIN row(i).nz} : i \in rows_of(q)} |->
                        row((q - 1) * ROWS_PER_PAGE + (o \div ROW_SIZE)).nz[o % ROW_SIZE]]]]

\* The files of the flat layout a session may find: of no row, of some, of
\* more than a page.
FlatFiles == { FlatFile(n) : n \in {0, 1, 2, ROWS_PER_PAGE, ROWS_PER_PAGE + 1} }

\* How far a cursor is advanced.
MaxAdvance == 16

\* A table of either layout is about to be built on some file.
InitCursor ==
    /\ \/ disk \in LeafFiles /\ script = "leaf"
       \/ disk \in FlatFiles /\ script = "flat"
    /\ phase = "closed"
    /\ session = 0
    /\ num_rows = 0
    /\ file_length = 0
    /\ pages = NoPages
    /\ input_buffer = NoCall
    /\ out = NoOut
    /\ inserted = << >>
    /\ opened_with = 0
    /\ the_cursor = NoCursor

\* Table::new of table.rs, of main.rs
LeafCursorOpen == script = "leaf" /\ LeafOpen
FlatCursorOpen ==
    /\ script = "flat"
    /\ Open

\* Table::start of table.rs, on the root page
LeafStart ==
    /\ phase = "open" /\ script = "leaf"
    /\ LET got == GetPage(pages, file_length, disk, 0)
       IN  /\ the_cursor' = TableStart(got[0])
           /\ pages' = got
    /\ out' = [NoOut EXCEPT !.executing = "start"]
    /\ UNCHANGED << disk, phase, session, num_rows, file_length, input_buffer,
                    inserted, opened_with, script >>

\* Table::end of table.rs
LeafEnd ==
    /\ phase = "open" /\ script = "leaf"
    /\ LET got == GetPage(pages, file_length, disk, 0)
       IN  /\ the_cursor' = TableEnd(got[0])
           /\ pages' = got
    /\ out' = [NoOut EXCEPT !.executing = "end"]
    /\ UNCHANGED << disk, phase, session, num_rows, file_length, input_buffer,
                    inserted, opened_with, script >>

\* Cursor::advance of table.rs
LeafAdvance ==
    /\ phase = "open" /\ script = "leaf"
    /\ the_cursor # NoCursor
    /\ the_cursor.cell_num < MaxAdvance
    /\ LET got == GetPage(pages, file_length, disk, the_cursor.page_num)
       IN  /\ the_cursor' = CursorAdvance(got[the_cursor.page_num], the_cursor)
           /\ pages' = got
    /\ out' = [NoOut EXCEPT !.executing = "advance"]
    /\ UNCHANGED << disk, phase, session, num_rows, file_length, input_buffer,
                    inserted, opened_with, script >>

\* Cursor::value of table.rs: out holds where the slice starts and how long
\* it is.  Taking a slice that starts beyond the page panics, which unwinds
\* and drops the table.
LeafValue ==
    /\ phase = "open" /\ script = "leaf"
    /\ the_cursor # NoCursor
    /\ LET got == GetPage(pages, file_length, disk, the_cursor.page_num)
           offset == CursorValue(the_cursor.cell_num)
       IN  IF offset > PAGE_SIZE
             THEN /\ out' = [executing |-> "value", message |-> "panic", rows |-> << >>,
                             offset |-> offset, len |-> 0]
                  /\ phase' = "closed"
                  /\ disk' = PagerFlush(disk, got)
                  /\ num_rows' = 0
                  /\ file_length' = 0
                  /\ pages' = NoPages
                  /\ the_cursor' = NoCursor
             ELSE /\ out' = [executing |-> "value", message |-> "Ok", rows |-> << >>,
                             offset |-> offset,
                             len |-> CursorValueLen(the_cursor.cell_num)]
                  /\ pages' = got
                  /\ UNCHANGED << phase, disk, num_rows, file_length, the_cursor >>
    /\ UNCHANGED << session, input_buffer, inserted, opened_with, script >>

\* Table::start, Table::end and Cursor::advance of main.rs
FlatStart ==
    /\ phase = "open" /\ script = "flat"
    /\ the_cursor' = FlatTableStart(num_rows)
    /\ out' = [NoOut EXCEPT !.executing = "start"]
    /\ UNCHANGED << disk, phase, session, num_rows, file_length, pages, input_buffer,
                    inserted, opened_with, script >>

FlatEnd ==
    /\ phase = "open" /\ script = "flat"
    /\ the_cursor' = FlatTableEnd(num_rows)
    /\ out' = [NoOut EXCEPT !.executing = "end"]
    /\ UNCHANGED << disk, phase, session, num_rows, file_length, pages, input_buffer,
                    inserted, opened_with, script >>

FlatAdvance ==
    /\ phase = "open" /\ script = "flat"
    /\ the_cursor # NoCursor
    /\ the_cursor.row_num < MaxAdvance
    /\ the_cursor' = FlatCursorAdvance(the_cursor, num_rows)
    /\ out' = [NoOut EXCEPT !.executing = "advance"]
    /\ UNCHANGED << disk, phase, session, num_rows, file_length, pages, input_buffer,
                    inserted, opened_with, script >>

NextCursor ==
    \/ LeafCursorOpen \/ LeafStart \/ LeafEnd \/ LeafAdvance \/ LeafValue
    \/ FlatCursorOpen \/ FlatStart \/ FlatEnd \/ FlatAdvance

SpecCursor == InitCursor /\ [][NextCursor]_vars

\* ------------------------------------------------------------ a flush that fails
\* The pages that Pager::flush seeks to and writes: the cached ones among the
\* full pages, and the page after them when it holds rows and is cached.
FlushDue(cache, num_full_pages, num_additional_bytes) ==
    {p \in DOMAIN cache :
        p < num_full_pages \/ (p = num_full_pages /\ num_additional_bytes > 0)}

\* Pager::flush when the seek to page `failing` returns an error: the `?`
\* returns from flush there, after the writes of the due pages before it.
FlushUntil(f, cache, num_full_pages, num_additional_bytes, failing) ==
    Flush(f, [p \in {q \in DOMAIN cache : q < failing} |-> cache[p]],
          num_full_pages, num_additional_bytes)

\* impl Drop for Table: the pages its flush is to write, and the bytes of
\* each that it is to write.
DropDue(nrows, cache) ==
    FlushDue(cache, nrows \div ROWS_PER_PAGE, (nrows % ROWS_PER_PAGE) * ROW_SIZE)
DropBytes(nrows, p) ==
    IF p < nrows \div ROWS_PER_PAGE THEN PAGE_SIZE ELSE (nrows % ROWS_PER_PAGE) * ROW_SIZE

\* ".exit" when the seek to one of the pages due fails: flush returns the
\* error and the expect of drop panics.  The state keeps the table as it was
\* when drop ran, and the page that failed.
ExitFailing ==
    /\ phase = "open"
    /\ script = "bulk" => CanPause
    /\ \E failing \in DropDue(num_rows, pages) :
          /\ disk' = FlushUntil(disk, pages, num_rows \div ROWS_PER_PAGE,
                                (num_rows % ROWS_PER_PAGE) * ROW_SIZE, failing)
          /\ out' = [executing |-> "", rows |-> << >>, failing |-> failing,
                     message |-> "dropping table failed to flush pages to disk"]
    /\ phase' = "panicked"
    /\ input_buffer' = DOT_EXIT
    /\ UNCHANGED << session, num_rows, file_length, pages, inserted, opened_with,
                    script, the_cursor >>

NextFlush == Open \/ Repl \/ Exit \/ ExitFailing

SpecFlush == InitBulk /\ [][NextFlush]_vars

\* ------------------------------------------------------------ the leaf node alone
\* LeafNode::leaf_node_key: leaf_node_cell gives the slice from the start of
\* the cell to the end of the page, `[..32]` takes its first 32 bytes (a
\* panic when there are fewer), and try_into().unwrap() makes the [u8; 4] of
\* u32::from_le_bytes of them, which fails for any length but 4.
LeafNodeKey(buffer, cell_num) ==
    LET p_leaf_node_cell == LeafNodeCell(cell_num)
        taken == 32
    IN  IF p_leaf_node_cell > buffer.len \/ buffer.len - p_leaf_node_cell < taken
          THEN [ok |-> FALSE, key |-> 0, err |-> "panic: range end index out of range"]
        ELSE IF taken # LEAF_NODE_KEY_SIZE
          THEN [ok |-> FALSE, key |-> 0,
                err |-> "panic: unwrap on Err(TryFromSliceError)"]
        ELSE LET key == FromLeBytes(ToSeq(Slice(buffer, p_leaf_node_cell,
                                                p_leaf_node_cell + taken)))
             IN  [ok |-> TRUE, key |-> key[1] * 65536 + key[2], err |-> ""]

\* The pages a leaf node is made on: root leaves of 0 cells, of some, of
\* LEAF_NODE_MAX_CELLS, of one more, and leaves whose num_cells has its four
\* bytes all different, or only the third byte set.
NodePages ==
    { LeafPage(k) : k \in {0, 1, 2, LEAF_NODE_MAX_CELLS - 1, LEAF_NODE_MAX_CELLS,
                           LEAF_NODE_MAX_CELLS + 1} }
      \cup { CopyInto(LeafPage(2), LEAF_NODE_NUM_CELLS_OFFSET, FromSeq(b)) :
                b \in { << 1, 2, 3, 4 >>, << 0, 0, 1, 0 >> } }

InitNode ==
    /\ disk = << >>
    /\ phase = "open"
    /\ session = 1
    /\ num_rows = 0
    /\ file_length = 0
    /\ pages \in { [p \in {root_page_num} |-> page] : page \in NodePages }
    /\ input_buffer = 0
    /\ out = NoOut
    /\ inserted = << >>
    /\ opened_with = 0
    /\ script = "node"
    /\ the_cursor = NoCursor

\* LeafNode::new(&mut page.buffer).leaf_node_num_cells()
NodeNumCells ==
    /\ script = "node" /\ phase = "open"
    /\ out' = [executing |-> "num_cells", message |-> "Ok", rows |-> << >>,
               value |-> LeafNodeNumCells(pages[root_page_num])]
    /\ input_buffer' = 0
    /\ UNCHANGED << disk, phase, session, num_rows, file_length, pages, inserted,
                    opened_with, script, the_cursor >>

\* LeafNode::new(&mut page.buffer).leaf_node_key(cell_num), for a cell the
\* page has room for; a panic ends the process.
NodeKey ==
    /\ script = "node" /\ phase = "open"
    /\ \E cell_num \in 0..(LEAF_NODE_MAX_CELLS - 1) :
          LET r == LeafNodeKey(pages[root_page_num], cell_num)
          IN  /\ out' = [executing |-> "key", rows |-> << >>, value |-> r.key,
                         message |-> IF r.ok THEN "Ok" ELSE r.err]
              /\ phase' = IF r.ok THEN "open" ELSE "panicked"
              /\ input_buffer' = cell_num
    /\ UNCHANGED << disk, session, num_rows, file_length, pages, inserted,
                    opened_with, script, the_cursor >>

NextNode == NodeNumCells \/ NodeKey

SpecNode == InitNode /\ [][NextNode]_vars

\* ------------------------------------------------------------ properties
\* The row of an accepted insert as select shows it: the id, and the two
\* fields without the zero bytes at their ends.
Shown(row) ==
    [id |-> row.id,
     username |-> TrimMatches0(FromSeq(row.username)),
     email |-> TrimMatches0(FromSeq(row.email))]

\* C1: in the first session, which starts from an empty file, a select
\* returns exactly the rows of the successful inserts made so far, in the
\* order of insertion: the same ids, and usernames and emails equal after
\* the zero bytes at the ends are trimmed; fields of 32 and 255 bytes
\* included.
C1_SelectReturnsInsertedRows ==
    (phase = "open" /\ session = 1 /\ out.executing = "select") =>
        /\ out.message = "Rows"
        /\ Len(out.rows) = Len(inserted)
        /\ \A i \in 1..Len(inserted) : out.rows[i] = Shown(inserted[i])

\* A select of the first session that shows two or more rows, one of them
\* with a username of 32 bytes and an email of 255.
C1_Witness ==
    /\ phase = "open" /\ session = 1 /\ out.executing = "select"
    /\ Len(out.rows) >= 2
    /\ \E i \in 1..Len(out.rows) :
          /\ Len(out.rows[i].username) = USERNAME_SIZE
          /\ Len(out.rows[i].email) = EMAIL_SIZE

\* C2: when the first session, on an empty file, has inserted its rows and
\* ended cleanly, a select of the next session, made before that session
\* inserts anything, returns exactly those rows in the order of insertion,
\* none missing and none extra.
C2_ReopenReturnsInsertedRows ==
    (phase = "open" /\ session = 2 /\ Len(inserted) = opened_with
                    /\ out.executing = "select") =>
        /\ out.message = "Rows"
        /\ Len(out.rows) = Len(inserted)
        /\ \A i \in 1..Len(inserted) : out.rows[i] = Shown(inserted[i])

\* C3: in the first session, which starts from an empty file, an insert made
\* when fewer than TABLE_MAX_ROWS rows are stored returns Success and adds one
\* row; an insert made when TABLE_MAX_ROWS rows are stored returns TableFull
\* and leaves the row count, the cached pages and the file as they were.
C3_TableFullAfterMaxRows ==
    [][(phase = "open" /\ phase' = "open" /\ session = 1 /\ out'.executing = "insert") =>
          IF Len(inserted) < TABLE_MAX_ROWS
            THEN /\ out'.message = "Success"
                 /\ num_rows = Len(inserted)
                 /\ num_rows' = num_rows + 1
            ELSE /\ out'.message = "Execute(TableFull)"
                 /\ num_rows = TABLE_MAX_ROWS
                 /\ num_rows' = num_rows
                 /\ pages' = pages
                 /\ disk' = disk
                 /\ inserted' = inserted]_vars

\* The insert after TABLE_MAX_ROWS successful ones has been refused.
C3_Witness ==
    /\ phase = "open" /\ session = 1
    /\ Len(inserted) = TABLE_MAX_ROWS
    /\ num_rows = TABLE_MAX_ROWS
    /\ out.executing = "insert"
    /\ out.message = "Execute(TableFull)"

\* The state right after the program was started.
JustOpened == phase \in {"open", "failed"} /\ input_buffer = << >>

\* C4, as stated: opening a file whose length is not a whole multiple of
\* PAGE_SIZE fails with a CorruptFile error and yields no table.
C4_OpenRejectsPartialPage ==
    (JustOpened /\ FileLen(disk) % PAGE_SIZE # 0) =>
        (phase = "failed" /\ out.message = "CorruptFile")

\* C4, amended: opening a file whose length is not a whole multiple of
\* PAGE_SIZE succeeds; the table has the file's length as file_length, that
\* length divided by ROW_SIZE (rounded down) as num_rows, and an empty cache.
C4_OpenAcceptsPartialPage ==
    (JustOpened /\ FileLen(disk) % PAGE_SIZE # 0) =>
        /\ phase = "open"
        /\ out.message = ""
        /\ file_length = FileLen(disk)
        /\ num_rows = FileLen(disk) \div ROW_SIZE
        /\ pages = NoPages

\* A file of one row, 291 bytes, has been opened as a table of one row.
C4_Witness ==
    /\ JustOpened /\ phase = "open"
    /\ FileLen(disk) = ROW_SIZE
    /\ num_rows = 1

\* C5, as stated: after a session that ended cleanly the file's length is a
\* whole multiple of PAGE_SIZE.
C5_FileLengthMultipleOfPageSize ==
    phase = "closed" => FileLen(disk) % PAGE_SIZE = 0

\* C5, amended: after a session that ended cleanly the file's length is a
\* whole number of pages plus a whole number, at most ROWS_PER_PAGE - 1, of
\* rows; after a first session on an empty file that inserted n rows it is
\* (n div ROWS_PER_PAGE) * PAGE_SIZE + (n mod ROWS_PER_PAGE) * ROW_SIZE.
C5_FileLengthWholeRows ==
    phase = "closed" =>
        LET rest == FileLen(disk) % PAGE_SIZE
            n == Len(inserted)
        IN  /\ rest % ROW_SIZE = 0
            /\ rest \div ROW_SIZE < ROWS_PER_PAGE
            /\ session = 1 =>
                  FileLen(disk) = (n \div ROWS_PER_PAGE) * PAGE_SIZE
                                  + (n % ROWS_PER_PAGE) * ROW_SIZE

\* A first session that inserted two rows has ended: the file is 582 bytes.
C5_Witness ==
    /\ phase = "closed" /\ session = 1
    /\ Len(inserted) = 2
    /\ FileLen(disk) = 2 * ROW_SIZE

\* C6, as stated: when the table is destroyed, the PAGE_SIZE bytes of the
\* file at every cached page's offset equal the cached buffer afterwards.
C6_EveryCachedPageWrittenInFull ==
    [][(phase = "open" /\ phase' = "closed") =>
          \A p \in DOMAIN pages : Chunk(disk', p) = pages[p]]_vars

\* C6, amended: when the table is destroyed, a cached page below
\* num_rows div ROWS_PER_PAGE is written whole; the cached page at that index
\* is written partially when num_rows mod ROWS_PER_PAGE = k > 0: its first
\* k * ROW_SIZE bytes are written and nothing after them; any other cached
\* page is not written.
C6_CachedPagesWrittenUpToLastRow ==
    [][(phase = "open" /\ phase' = "closed") =>
          LET num_full_pages == num_rows \div ROWS_PER_PAGE
              num_additional_bytes == (num_rows % ROWS_PER_PAGE) * ROW_SIZE
          IN  \A p \in DOMAIN pages :
                /\ p < num_full_pages => Chunk(disk', p) = pages[p]
                /\ (p = num_full_pages /\ num_additional_bytes > 0) =>
                      /\ Chunk(disk', p).len =
                            Max(Chunk(disk, p).len, num_additional_bytes)
                      /\ Slice(Chunk(disk', p), 0, num_additional_bytes) =
                            Slice(pages[p], 0, num_additional_bytes)
                      /\ Slice(Chunk(disk', p), num_additional_bytes, PAGE_SIZE) =
                            Slice(Chunk(disk, p), num_additional_bytes, PAGE_SIZE)
                /\ (p > num_full_pages \/ (p = num_full_pages /\ num_additional_bytes = 0)) =>
                      Chunk(disk', p) = Chunk(disk, p)]_vars

\* A table of one full page and one more row has been dropped: the file
\* holds the full page and the 291 bytes of the row after it.
C6_Witness ==
    /\ phase = "closed"
    /\ Len(inserted) = ROWS_PER_PAGE + 1
    /\ Len(disk) = 2
    /\ disk[1].len = PAGE_SIZE
    /\ disk[2].len = ROW_SIZE

\* C7: a turn of the program's loop leaves the file as it is (the only
\* writes are those of the drop); when the turn starts right after a
\* successful insert, that insert's row is in the cache, in its slot, each
\* field zero-padded to its width; and a select returns as many rows as the
\* table counts.
C7_NoWriteBeforeDrop ==
    [][(phase = "open" /\ phase' = "open") =>
          /\ disk' = disk
          /\ out.message = "Success" =>
                LET row_num == num_rows - 1
                    byte_offset == (row_num % ROWS_PER_PAGE) * ROW_SIZE
                    page == pages[row_num \div ROWS_PER_PAGE]
                    row == inserted[Len(inserted)]
                IN  DeserializeRow(Slice(page, byte_offset, byte_offset + ROW_SIZE)) =
                        [id |-> row.id,
                         username |-> CopyInto(Zeros(USERNAME_SIZE), 0, FromSeq(row.username)),
                         email |-> CopyInto(Zeros(EMAIL_SIZE), 0, FromSeq(row.email))]
          /\ out'.executing = "select" => Len(out'.rows) = num_rows]_vars

\* A select of the first session shows rows while the file is still empty.
C7_Witness ==
    /\ phase = "open" /\ session = 1
    /\ out.executing = "select"
    /\ Len(out.rows) >= 1
    /\ FileLen(disk) = 0

\* C8: for an insert whose id is a u32, prepare_statement returns TooLong
\* exactly when the username is longer than 32 bytes or the email longer than
\* 255; otherwise it returns the insert with the id's value and the two
\* fields as given, so 32 bytes with 255 bytes is accepted.
C8_TooLongIffFieldTooLong ==
    \A id \in GoodIds, u \in UsernameLens, e \in EmailLens :
        (phase = "parsed" /\ input_buffer = Sized(id.text, u, e)) =>
            /\ out.message = "TooLong" <=> (u > 32 \/ e > 255)
            /\ (u <= 32 /\ e <= 255) =>
                  /\ out.message = "Insert"
                  /\ out.rows = << [id |-> id.value, username |-> Repeat(97, u),
                                    email |-> Repeat(97, e)] >>

\* An insert with a good id and a username of 33 bytes was refused as too
\* long.
C8_Witness ==
    /\ phase = "parsed"
    /\ \E id \in GoodIds : input_buffer = Sized(id.text, 33, 1)
    /\ out.message = "TooLong"

\* C9: for an insert that has an id, a username and an email token, when the
\* id token is not a u32 (empty, a sign alone, negative, not a number, above
\* 2^32 - 1) prepare_statement returns InvalidId, whatever the lengths of the
\* username and the email.
C9_InvalidIdWhateverTheLengths ==
    \A id \in BadIds, u \in UsernameLens, e \in EmailLens :
        (phase = "parsed" /\ input_buffer = Sized(id, u, e)) =>
            /\ out.message = "InvalidId"
            /\ out.rows = << >>

\* "insert -1 aa..a aa..a" with fields that are too long was refused for its
\* id.
C9_Witness ==
    /\ phase = "parsed"
    /\ input_buffer = Sized(<< 45, 49 >>, 33, 256)
    /\ out.message = "InvalidId"

\* C10: a loop turn on a statement the parser rejects prints the parser's
\* error and no "executing" line, and leaves the row count, the cached
\* pages, the file and the accepted rows as they were; and a select always
\* returns as many rows as the table counts, none of them from a rejected
\* statement.
C10_RejectedStatementNotExecuted ==
    [][(phase = "open" /\ phase' = "open") =>
          /\ input_buffer' \in BadLines =>
                /\ out'.executing = ""
                /\ out'.message \in {"Statement(Sql)", "Statement(TooLong)",
                                      "Statement(InvalidId)"}
                /\ out'.rows = << >>
                /\ num_rows' = num_rows
                /\ pages' = pages
                /\ disk' = disk
                /\ inserted' = inserted
          /\ out'.executing = "select" =>
                /\ Len(out'.rows) = num_rows
                /\ \A i \in 1..Len(inserted) : out'.rows[i] = Shown(inserted[i])]_vars

\* After an accepted insert a too-long insert was rejected: one row stays.
C10_Witness ==
    /\ phase = "open"
    /\ num_rows = 1 /\ Len(inserted) = 1
    /\ out.message = "Statement(TooLong)"
    /\ out.executing = ""

\* The bytes of a field without the zero bytes at its end.
TrimEnd0(b) ==
    IF DOMAIN b.nz = {} THEN << >>
    ELSE LET back == {b.len - 1 - o : o \in DOMAIN b.nz}
             last == b.len - 1 - (CHOOSE o \in back : \A j \in back : o <= j)
         IN  [i \in 1..(last + 1) |-> Byte(b, i - 1)]

EndsInZero(s) == Len(s) > 0 /\ s[Len(s)] = 0

\* C11: for a row whose username is at most 32 bytes and whose email at most
\* 255, neither ending in a zero byte, deserialize_row(serialize_row(r)) has
\* the id of r and a username and an email equal to those of r once the zero
\* bytes at their ends are trimmed; so for the pair of main.rs and for the
\* pair of virtual_machine.rs.
C11_DeserializeSerialize ==
    phase = "coded" =>
        LET r == inserted[1]
        IN  (~EndsInZero(r.username) /\ ~EndsInZero(r.email)) =>
                \A k \in 1..2 :
                    /\ out.rows[k].id = r.id
                    /\ TrimEnd0(out.rows[k].username) = r.username
                    /\ TrimEnd0(out.rows[k].email) = r.email

\* A row with the id 0xFFFF0002 and fields of 32 and 255 bytes has gone
\* through both pairs.
C11_Witness ==
    /\ phase = "coded"
    /\ inserted[1].id = << 65535, 2 >>
    /\ Len(inserted[1].username) = 32
    /\ Len(inserted[1].email) = 255
    /\ Len(out.rows) = 2

\* The bytes [0, ID_SIZE) of the slot of row row_num in the file f.
StoredIdBytes(f, row_num) ==
    LET byte_offset == (row_num % ROWS_PER_PAGE) * ROW_SIZE
    IN  ToSeq(Slice(Chunk(f, row_num \div ROWS_PER_PAGE),
                    byte_offset + ID_OFFSET, byte_offset + ID_OFFSET + ID_SIZE))

\* C12: when a session has ended, the file holds the id of every inserted
\* row in the first four bytes of the row's slot, least significant byte
\* first (little-endian).
C12_IdStoredLittleEndian ==
    (phase = "closed" /\ session >= 1) =>
        \A i \in 1..Len(inserted) :
            StoredIdBytes(disk, i - 1) = ToLeBytes(inserted[i].id)

\* What main prints when get_page refused the page of a row.
PagesFullMessage == "Execute(Table(Pager(PagesFull)))"

\* C13: no page with an index above MAX_PAGES is ever in the cache; a
\* statement that get_page refuses with PagesFull leaves the file and the
\* row count as they were, and a refused insert, whose only get_page call
\* is the refused one, leaves the cache as it was: no page is added.
C13_PagesFullAboveMaxPages ==
    [][/\ \A p \in DOMAIN pages' : p <= MAX_PAGES
       /\ (phase = "open" /\ phase' = "open" /\ out'.message = PagesFullMessage) =>
              /\ disk' = disk
              /\ num_rows' = num_rows
              /\ out'.rows = << >>
              /\ out'.executing = "insert" => pages' = pages]_vars

C13_Witness ==
    /\ phase = "open"
    /\ out.executing = "insert"
    /\ out.message = PagesFullMessage
    /\ num_rows \div ROWS_PER_PAGE > MAX_PAGES

\* C14: in every state the cache holds at most MAX_PAGES pages and the file
\* is at most MAX_PAGES pages long.
C14_MaxPagesIsACeiling ==
    /\ Cardinality(DOMAIN pages) <= MAX_PAGES
    /\ FileLen(disk) <= MAX_PAGES * PAGE_SIZE

\* C15: while the program runs, in its first session or after a reopen, the
\* row count is at most TABLE_MAX_ROWS and is the number of rows inserted so
\* far; an insert made in a session that opened a file of TABLE_MAX_ROWS
\* rows returns TableFull.
C15_RowCountIsRowsInserted ==
    phase = "open" =>
        /\ num_rows <= TABLE_MAX_ROWS
        /\ num_rows = Len(inserted)
        /\ (opened_with = TABLE_MAX_ROWS /\ out.executing = "insert") =>
               out.message = "Execute(TableFull)"

\* C16: when two sessions have inserted their rows, a then b of them with
\* a + b <= TABLE_MAX_ROWS, and ended cleanly, a select of the third session,
\* made before that session inserts anything, returns the a rows followed by
\* the b rows.
C16_RowsAccumulateAcrossSessions ==
    (phase = "open" /\ session = 3 /\ Len(inserted) = opened_with
                    /\ Len(inserted) <= TABLE_MAX_ROWS
                    /\ out.executing = "select") =>
        /\ out.message = "Rows"
        /\ out.rows = [i \in 1..Len(inserted) |-> Shown(inserted[i])]

\* C17: a session that opens the file a clean shutdown left, inserts nothing
\* and exits, leaves the file as it was, byte for byte.
C17_SelectOnlySessionKeepsFile ==
    [][(phase = "open" /\ phase' = "closed" /\ session >= 2
                       /\ Len(inserted) = opened_with) =>
           disk' = disk]_vars

\* The cached root page, fetched as get_page(0) would fetch it.
RootPage == GetPage(pages, file_length, disk, 0)[0]

\* C18: in a session on a file that was empty the root leaf's num_cells is
\* the number of successful engine inserts made so far (at most
\* LEAF_NODE_MAX_CELLS), 0 right after Table::new.
C18_NumCellsCountsInserts ==
    (phase = "open" /\ session = 1 /\ file_length = 0
                    /\ Len(inserted) <= LEAF_NODE_MAX_CELLS) =>
        LeafNodeNumCells(RootPage) = Len(inserted)

\* C19: after a Cursor::insert(key, value) that returned Ok, cell cell_num
\* holds key in little-endian in its first four bytes and value in the
\* ROW_SIZE bytes that follow, and num_cells is one more than before.
C19_CursorInsertWritesCell ==
    [][(phase = "open" /\ phase' = "open" /\ out'.executing = "cursor insert"
                       /\ out'.message = "Ok") =>
           LET call == input_buffer'
               page == pages'[0]
           IN  /\ ToSeq(Slice(page, LeafNodeCell(call.cell_num),
                              LeafNodeCell(call.cell_num) + LEAF_NODE_KEY_SIZE))
                      = ToLeBytes(call.key)
               /\ Slice(page, CursorValue(call.cell_num),
                        CursorValue(call.cell_num) + ROW_SIZE) = call.value
               /\ LeafNodeNumCells(page) = LeafNodeNumCells(RootPage) + 1]_vars

\* C20: a Cursor::insert on a leaf of LEAF_NODE_MAX_CELLS cells returns
\* SplitNotImplemented and leaves the page as it was.
C20_FullLeafRefusesInsert ==
    [][(phase = "open" /\ phase' = "open" /\ out'.executing = "cursor insert"
                       /\ LeafNodeNumCells(RootPage) = LEAF_NODE_MAX_CELLS) =>
           /\ out'.message = "SplitNotImplemented"
           /\ pages'[0] = RootPage]_vars

\* C21: a select on the leaf layout ends with the rows of the cells
\* 0, 1, .., n-1, where n is the num_cells of the root leaf: it returns
\* exactly n rows.
C21_SelectReturnsEveryCell ==
    (phase = "open" /\ out.executing = "select") =>
        /\ out.message = "Rows"
        /\ Len(out.rows) = LeafNodeNumCells(RootPage)

\* The row count a cursor is measured against, and where the cursor stands:
\* num_cells and cell_num in the leaf layout, num_rows and row_num in the
\* flat one.
RowCount == IF script = "leaf" THEN LeafNodeNumCells(RootPage) ELSE num_rows
Position == IF script = "leaf" THEN the_cursor.cell_num ELSE the_cursor.row_num

\* C22: a cursor, however it was made and advanced, stands at a position
\* from 0 to the row count of its table.
C22_CursorWithinRowCount ==
    (phase = "open" /\ the_cursor # NoCursor) =>
        (0 <= Position /\ Position <= RowCount)

\* C23: the cursor of start stands at position 0 (of page 0 in the leaf
\* layout) and is at the end of the table exactly when the table holds no
\* row; the cursor of end stands at the row count and is at the end of the
\* table; a select on a table of no row returns no rows.
C23_StartAndEndCursors ==
    /\ (phase = "open" /\ out.executing = "start") =>
           /\ Position = 0
           /\ script = "leaf" => the_cursor.page_num = 0
           /\ the_cursor.end_of_table <=> (RowCount = 0)
    /\ (phase = "open" /\ out.executing = "end") =>
           /\ Position = RowCount
           /\ script = "leaf" => the_cursor.page_num = 0
           /\ the_cursor.end_of_table
    /\ (phase = "open" /\ RowCount = 0) =>
           LET r == IF script = "leaf"
                      THEN LeafExecuteSelect(num_rows, pages, file_length, disk)
                      ELSE ExecuteSelect(num_rows, pages, file_length, disk)
           IN  r.res = "Rows" /\ r.rows = << >>

C23_Witness ==
    /\ phase = "open"
    /\ script = "leaf"
    /\ out.executing = "start"
    /\ RowCount = 0
    /\ the_cursor.end_of_table

\* C25: for a cursor below LEAF_NODE_MAX_CELLS, Cursor::value returns the
\* ROW_SIZE bytes that start LEAF_NODE_KEY_SIZE bytes into the cell: they lie
\* inside the page and end before the next cell.
C25_ValueIsOneRowSlot ==
    (phase = "open" /\ script = "leaf" /\ out.executing = "value"
                    /\ the_cursor.cell_num < LEAF_NODE_MAX_CELLS) =>
        /\ out.message = "Ok"
        /\ out.offset = LEAF_NODE_HEADER_SIZE
                           + the_cursor.cell_num * LEAF_NODE_CELL_SIZE + 4
        /\ out.len = ROW_SIZE
        /\ out.offset + out.len <= PAGE_SIZE
        /\ out.offset + out.len <= LeafNodeCell(the_cursor.cell_num + 1)

CellBytes(page, i) == Slice(page, LeafNodeCell(i), LeafNodeCell(i) + LEAF_NODE_CELL_SIZE)

\* C26: a Cursor::insert below the end of the cells of a leaf that has room
\* returns Ok; every cell from cell_num on is then one slot further, with
\* its bytes, and the cells below cell_num are as they were.
C26_InsertShiftsCellsRight ==
    [][(phase = "open" /\ phase' = "open" /\ out'.executing = "cursor insert"
                       /\ input_buffer'.cell_num < LeafNodeNumCells(RootPage)
                       /\ LeafNodeNumCells(RootPage) < LEAF_NODE_MAX_CELLS) =>
           /\ out'.message = "Ok"
           /\ \A i \in 0..(LeafNodeNumCells(RootPage) - 1) :
                  CellBytes(pages'[0], IF i < input_buffer'.cell_num THEN i ELSE i + 1)
                      = CellBytes(RootPage, i)]_vars

\* The byte of the file f at offset off; zero past the end of the file.
FileByte(f, off) ==
    IF off < FileLen(f) THEN Byte(Chunk(f, off \div PAGE_SIZE), off % PAGE_SIZE) ELSE 0

\* C27: while a session has changed no page (it has inserted nothing), each
\* page in its cache, which a cache miss of get_page put there, is PAGE_SIZE
\* bytes long and holds, byte for byte, the bytes of the file from offset
\* page_num * PAGE_SIZE on and zeros past the end of the file; the short
\* read is no error: the select that fetched the pages returned its rows,
\* or PagesFull.
C27_MissReadsFileThenZeros ==
    (phase = "open" /\ Len(inserted) = opened_with) =>
        /\ \A p \in DOMAIN pages :
               /\ pages[p].len = PAGE_SIZE
               /\ \A o \in 0..(PAGE_SIZE - 1) :
                      Byte(pages[p], o) = FileByte(disk, p * PAGE_SIZE + o)
        /\ out.executing = "select" => out.message \in {"Rows", PagesFullMessage}

C27_Witness ==
    /\ phase = "open"
    /\ Len(inserted) = opened_with
    /\ FileLen(disk) % PAGE_SIZE # 0
    /\ Len(disk) > 1
    /\ DOMAIN pages = 0..(Len(disk) - 1)
    /\ DOMAIN pages[Len(disk) - 1].nz # {}

\* The slot of the row that an insert at row count nrows writes, in its page.
RowSlot(nrows) ==
    [page_num |-> nrows \div ROWS_PER_PAGE,
     from |-> (nrows % ROWS_PER_PAGE) * ROW_SIZE,
     to |-> (nrows % ROWS_PER_PAGE) * ROW_SIZE + ROW_SIZE]

\* C28: while a session runs, a page that is cached stays cached, and a
\* statement that gets it again finds the buffer as it was left, never the
\* file's copy: a select leaves every cached page byte for byte as it was,
\* and a successful insert changes one cached page only, the one of the new
\* row, and there only the bytes of the new row's slot.
C28_CachedPageStaysAsModified ==
    [][(phase = "open" /\ phase' = "open") =>
          /\ DOMAIN pages \subseteq DOMAIN pages'
          /\ \A p \in DOMAIN pages :
                 IF out'.message = "Success" /\ p = RowSlot(num_rows).page_num
                   THEN /\ Slice(pages'[p], 0, RowSlot(num_rows).from)
                             = Slice(pages[p], 0, RowSlot(num_rows).from)
                        /\ Slice(pages'[p], RowSlot(num_rows).to, PAGE_SIZE)
                             = Slice(pages[p], RowSlot(num_rows).to, PAGE_SIZE)
                   ELSE pages'[p] = pages[p]]_vars

\* A select has just run on two or more cached pages of which one holds a row
\* that the file does not hold yet.
C28_Witness ==
    /\ phase = "open"
    /\ out.executing = "select" /\ out.message = "Rows"
    /\ Len(inserted) > opened_with
    /\ Cardinality(DOMAIN pages) >= 2
    /\ \E p \in DOMAIN pages : pages[p] # VacantPage(file_length, disk, p)

\* The first n bytes of page p of the file are those of the cached page p.
PageInFile(f, cache, p, n) ==
    /\ p < Len(f)
    /\ f[p + 1].len >= n
    /\ Slice(f[p + 1], 0, n) = Slice(cache[p], 0, n)

\* C29: when the table is dropped and the seek or write of one page fails,
\* the flush has still attempted every other page it had to write, so each
\* of them is in the file as it is in the cache.
C29_FlushAttemptsEveryPage ==
    phase = "panicked" =>
        \A p \in DropDue(num_rows, pages) \ {out.failing} :
            PageInFile(disk, pages, p, DropBytes(num_rows, p))

\* C30: a select changes neither the row count nor the file nor any byte of
\* a stored row; a second select right after it comes out the same (message,
\* rows, row count, pages), and an insert made after it is what it would
\* have been without it: the same result, the same row count, the same
\* file, the same bytes in every page it leaves cached, the page of the new
\* row included.
C30_SelectChangesNothing ==
    [][(phase = "open" /\ phase' = "open" /\ out'.executing = "select") =>
          /\ num_rows' = num_rows
          /\ disk' = disk
          /\ \A i \in 0..(num_rows - 1) :
                 LET slot == RowSlot(i)
                 IN  Slice(pages'[slot.page_num], slot.from, slot.to)
                       = Slice(GetPage(pages, file_length, disk, slot.page_num)[slot.page_num],
                               slot.from, slot.to)
          /\ ReplStatement(SELECT, num_rows', pages', file_length', disk')
                 = [executing |-> "select", message |-> out'.message, rows |-> out'.rows,
                    num_rows |-> num_rows', pages |-> pages', file |-> disk']
          /\ \A line \in {ScriptLine(1), BigIdLine} :
                 ReplStatement(line, num_rows', pages', file_length', disk')
                   = [ReplStatement(line, num_rows, pages, file_length, disk)
                        EXCEPT !.pages = [q \in DOMAIN pages' \cup DOMAIN @ |->
                                            IF q \in DOMAIN @ THEN @[q] ELSE pages'[q]]]]_vars

\* A select of a later session has returned rows of which some are in the
\* file and some only in the cache.
C30_Witness ==
    /\ phase = "open" /\ session >= 2
    /\ out.executing = "select" /\ out.message = "Rows"
    /\ opened_with >= 1
    /\ Len(inserted) > opened_with
    /\ Len(out.rows) > opened_with

\* C31: for every cell index below LEAF_NODE_MAX_CELLS, leaf_node_key
\* returns, without failing, the number that the four bytes at page offset
\* LEAF_NODE_HEADER_SIZE + cell index * LEAF_NODE_CELL_SIZE are in
\* little-endian order, and leaf_node_num_cells returns the number that the
\* four bytes at offset 6 are in little-endian order.
C31_KeyAndNumCellsDecode ==
    LET page == pages[root_page_num]
        le(o) == Byte(page, o) + 256 * Byte(page, o + 1) + 65536 * Byte(page, o + 2)
                   + 16777216 * Byte(page, o + 3)
    IN  /\ (script = "node" /\ out.executing = "key") =>
              /\ out.message = "Ok"
              /\ out.value = le(LEAF_NODE_HEADER_SIZE + input_buffer * LEAF_NODE_CELL_SIZE)
        /\ (script = "node" /\ out.executing = "num_cells") =>
              /\ out.message = "Ok"
              /\ out.value = le(6)
====
